---- MODULE Spec2Model ----
\* Tic-Tac-Toe rules engine of src/script.js: the GameBoard module (the
\* 9-cell array and its setCell/resetBoard/getBoard), the Player factory and
\* the GameController module (startGame, playRound, checkWinner, resetGame).
\* Every call runs to completion before the next one starts (one UI event at
\* a time), so each call is one action.
EXTENDS Integers, Sequences, FiniteSets, TLC

\* ---------------------------------------------------------------- bounds
\* playRound/setCell are tried with indices from -IndexSlack to 8+IndexSlack.
IndexSlack == 1
\* Highest cell index touched in the aliasing specification (SpecAlias).
MaxAliasIndex == 2

\* ------------------------------------------------------------- constants
BoardSize == 9
EMPTY == ""
MarkX == "X"
MarkO == "O"
tie == "tie"
null == "null"

\* Names are opaque to the engine (it stores and returns them): two distinct
\* ones are enough to tell the players, and the argument order, apart.
Names == {"Ann", "Bo"}
Markers == {MarkX, MarkO}
Indices == (0 - IndexSlack)..(BoardSize - 1 + IndexSlack)
AliasIndices == 0..MaxAliasIndex

\* Outcomes of a call as the caller sees them.
RetTrue == "true"
RetFalse == "false"
RetVoid == "undefined"
TypeError == "TypeError"

\* ----------------------------------------------------------------- state
\* heap   the JavaScript arrays that are still referenced, by reference
\* board  GameBoard's `board` variable: a reference into heap
\* held   the reference a caller got from getBoard() (0: none yet)
\* players, currentPlayerIndex, isGameOver   GameController's variables
\* call   the last completed call: its name, arguments and outcome
VARIABLES heap, board, held, players, currentPlayerIndex, isGameOver, call

vars == <<heap, board, held, players, currentPlayerIndex, isGameOver, call>>

Refs == {1, 2}
NoRef == 0

\* Array(9).fill("")
EmptyArray == [c \in 1..BoardSize |-> EMPTY]

\* The array `board` refers to; JavaScript index i is position i + 1.
cells == heap[board]

\* A reference no variable holds once `board` has been rebound.
FreshRef == IF held = 1 THEN 2 ELSE 1

\* The heap after garbage collection: only the arrays reachable from the
\* module's variable (b) and the caller's variable (h) remain.
Reachable(hp, b, h) == [r \in ({b, h} \ {NoRef}) |-> hp[r]]

\* ----------------------------------------------------------- GameBoard
\* setCell with `board[index] !== value` for the emptiness test: a cell of the
\* other marker can be taken.
setCell_takesOpponentCell(a, index, value) ==
    IF index >= 0 /\ index < 9 /\ a[index + 1] # value
    THEN [ret |-> TRUE, cells |-> [a EXCEPT ![index + 1] = value]]
    ELSE [ret |-> FALSE, cells |-> a]

\* setCell without the emptiness test.
setCell_noEmptyCheck(a, index, value) ==
    IF index >= 0 /\ index < 9
    THEN [ret |-> TRUE, cells |-> [a EXCEPT ![index + 1] = value]]
    ELSE [ret |-> FALSE, cells |-> a]

\* setCell with `index > 0` for the lower bound.
setCell_skipsCellZero(a, index, value) ==
    IF index > 0 /\ index < 9 /\ a[index + 1] = EMPTY
    THEN [ret |-> TRUE, cells |-> [a EXCEPT ![index + 1] = value]]
    ELSE [ret |-> FALSE, cells |-> a]

\* setCell's result on an array a: the value returned and the array after.
setCell(a, index, value) ==
    IF index >= 0 /\ index < 9 /\ a[index + 1] = EMPTY
    THEN [ret |-> TRUE, cells |-> [a EXCEPT ![index + 1] = value]]
    ELSE [ret |-> FALSE, cells |-> a]

\* resetBoard rebinds `board` to a new array; the old array is untouched.
resetBoard ==
    /\ board' = FreshRef
    /\ heap' = Reachable([r \in Refs |-> IF r = FreshRef THEN EmptyArray
                                          ELSE IF r \in DOMAIN heap THEN heap[r]
                                          ELSE EmptyArray],
                         FreshRef, held)

\* Direct calls on the GameBoard object, which every script on the page can
\* reach.
GameBoard_setCell(index, value) ==
    /\ heap' = [heap EXCEPT ![board] = setCell(cells, index, value).cells]
    /\ call' = [op |-> "setCell", index |-> index, value |-> value,
                ret |-> IF setCell(cells, index, value).ret THEN RetTrue ELSE RetFalse]
    /\ UNCHANGED <<board, held, players, currentPlayerIndex, isGameOver>>

GameBoard_resetBoard ==
    /\ resetBoard
    /\ call' = [op |-> "resetBoard", ret |-> RetVoid]
    /\ UNCHANGED <<held, players, currentPlayerIndex, isGameOver>>

\* getBoard returns `board` itself: the caller now holds the live array.
GameBoard_getBoard ==
    /\ held' = board
    /\ heap' = Reachable(heap, board, board)
    /\ call' = [op |-> "getBoard", ref |-> board]
    /\ UNCHANGED <<board, players, currentPlayerIndex, isGameOver>>

\* The holder of a getBoard() result assigns to one of its elements.
writeThroughSnapshot(index, value) ==
    /\ held # NoRef
    /\ heap' = [heap EXCEPT ![held][index + 1] = value]
    /\ call' = [op |-> "write", index |-> index, value |-> value]
    /\ UNCHANGED <<board, held, players, currentPlayerIndex, isGameOver>>

\* ------------------------------------------------------------- Player
Player(name, marker) == [name |-> name, marker |-> marker]

\* ------------------------------------------------------ GameController
Wins(row) == row[1] = row[2] /\ row[2] = row[3] /\ row[1] # EMPTY

RECURSIVE FirstWin(_, _)
\* The `for` loops of checkWinner: the first line, in order, that wins.
FirstWin(lines, k) ==
    IF k > Len(lines) THEN null
    ELSE IF Wins(lines[k]) THEN lines[k][1]
    ELSE FirstWin(lines, k + 1)

Horizontal(a) == [n \in 1..3 |-> [j \in 1..3 |-> a[<<0, 3, 6>>[n] + (j - 1) + 1]]]
Vertical(a) == [n \in 1..3 |-> [j \in 1..3 |-> a[(n - 1) + <<0, 3, 6>>[j] + 1]]]
\* The second diagonal taken as [2, 4, 8].
Diagonal_wrongCells(a) == [n \in 1..2 |-> [j \in 1..3 |-> a[<<<<0, 4, 8>>, <<2, 4, 8>>>>[n][j] + 1]]]
Diagonal(a) == [n \in 1..2 |-> [j \in 1..3 |-> a[<<<<0, 4, 8>>, <<2, 4, 6>>>>[n][j] + 1]]]

\* includes that looks for " " where the cells hold "".
includes_wrongValue(a, value) == \E c \in DOMAIN a : a[c] = " "
includes(a, value) == \E c \in DOMAIN a : a[c] = value

checkWinner(a) ==
    LET horizontal == FirstWin(Horizontal(a), 1)
        vertical == FirstWin(Vertical(a), 1)
        diagonal == FirstWin(Diagonal(a), 1)
    IN  IF horizontal # null THEN horizontal
        ELSE IF vertical # null THEN vertical
        ELSE IF diagonal # null THEN diagonal
        ELSE IF ~includes(a, EMPTY) THEN tie
        ELSE null

\* switchPlayer that leaves the index where it is.
switchPlayer_stays(index) == index
switchPlayer(index) == 1 - index

\* players[currentPlayerIndex] is undefined while players is [].
hasCurrentPlayer == (currentPlayerIndex + 1) \in DOMAIN players
getCurrentPlayer == players[currentPlayerIndex + 1]

\* startGame that hands "O" to the first player and "X" to the second.
startGame_swappedMarkers(player1Name, player2Name) ==
    /\ players' = <<Player(player1Name, MarkO), Player(player2Name, MarkX)>>
    /\ currentPlayerIndex' = 0
    /\ isGameOver' = FALSE
    /\ resetBoard
    /\ call' = [op |-> "startGame", player1Name |-> player1Name,
                player2Name |-> player2Name, ret |-> RetVoid]
    /\ UNCHANGED held

startGame(player1Name, player2Name) ==
    /\ players' = <<Player(player1Name, MarkX), Player(player2Name, MarkO)>>
    /\ currentPlayerIndex' = 0
    /\ isGameOver' = FALSE
    /\ resetBoard
    /\ call' = [op |-> "startGame", player1Name |-> player1Name,
                player2Name |-> player2Name, ret |-> RetVoid]
    /\ UNCHANGED held

\* playRound that calls switchPlayer() before looking at the winner.
afterPlacement_alwaysSwitches(a, index, over) ==
    [currentPlayerIndex |-> switchPlayer(index),
     isGameOver |-> over \/ checkWinner(a) # null]

\* playRound that ends the game on a win only: a full board without a line
\* is treated like null.
afterPlacement_missesTie(a, index, over) ==
    IF checkWinner(a) \in {null, tie}
    THEN [currentPlayerIndex |-> switchPlayer(index), isGameOver |-> over]
    ELSE [currentPlayerIndex |-> index, isGameOver |-> TRUE]

\* What playRound does to the turn index and the flag after a placement.
afterPlacement(a, index, over) ==
    IF checkWinner(a) = null
    THEN [currentPlayerIndex |-> switchPlayer(index), isGameOver |-> over]
    ELSE [currentPlayerIndex |-> index, isGameOver |-> TRUE]

\* playRound without the `if (isGameOver) return false`.
playRoundBranch_noLock(over, hasPlayer) ==
    IF ~hasPlayer THEN "throw" ELSE "place"

\* The branch playRound takes: refused because the game is over, a TypeError
\* from undefined.getMarker(), or the setCell attempt.
playRoundBranch(over, hasPlayer) ==
    IF over THEN "over" ELSE IF ~hasPlayer THEN "throw" ELSE "place"

playRound(index) ==
    LET branch == playRoundBranch(isGameOver, hasCurrentPlayer) IN
    /\ call' = [op |-> "playRound", index |-> index,
                ret |-> CASE branch = "over" -> RetFalse
                          [] branch = "throw" -> TypeError
                          [] OTHER ->
                             IF setCell(cells, index, getCurrentPlayer.marker).ret
                             THEN RetTrue ELSE RetFalse]
    /\ IF branch = "place" /\ setCell(cells, index, getCurrentPlayer.marker).ret
       THEN LET placed == setCell(cells, index, getCurrentPlayer.marker).cells
                after == afterPlacement(placed, currentPlayerIndex, isGameOver)
            IN /\ heap' = [heap EXCEPT ![board] = placed]
               /\ currentPlayerIndex' = after.currentPlayerIndex
               /\ isGameOver' = after.isGameOver
       ELSE UNCHANGED <<heap, currentPlayerIndex, isGameOver>>
    /\ UNCHANGED <<board, held, players>>

\* checkWinner that reverses the board array in place while scanning it.
GameController_checkWinner_reverses ==
    /\ call' = [op |-> "checkWinner", ret |-> checkWinner(cells)]
    /\ heap' = [heap EXCEPT ![board] = [c \in 1..BoardSize |-> cells[BoardSize + 1 - c]]]
    /\ UNCHANGED <<board, held, players, currentPlayerIndex, isGameOver>>

\* A call of checkWinner from outside (the view calls it after every change).
GameController_checkWinner ==
    /\ call' = [op |-> "checkWinner", ret |-> checkWinner(cells)]
    /\ UNCHANGED <<heap, board, held, players, currentPlayerIndex, isGameOver>>

\* resetGame that forgets `currentPlayerIndex = 0`.
resetGame_keepsTurn ==
    /\ isGameOver' = FALSE
    /\ resetBoard
    /\ call' = [op |-> "resetGame", ret |-> RetVoid]
    /\ UNCHANGED <<held, players, currentPlayerIndex>>

resetGame ==
    /\ currentPlayerIndex' = 0
    /\ isGameOver' = FALSE
    /\ resetBoard
    /\ call' = [op |-> "resetGame", ret |-> RetVoid]
    /\ UNCHANGED <<held, players>>

\* ------------------------------------------------------ specifications
Init ==
    /\ heap = [r \in {1} |-> EmptyArray]
    /\ board = 1
    /\ held = NoRef
    /\ players = <<>>
    /\ currentPlayerIndex = 0
    /\ isGameOver = FALSE
    /\ call = [op |-> "load", ret |-> RetVoid]

StartGame == \E n1 \in Names, n2 \in Names : startGame(n1, n2)
PlayRound == \E i \in Indices : playRound(i)
ResetGame == resetGame

\* The engine driven through GameController only.
Next == StartGame \/ PlayRound \/ ResetGame

Spec == Init /\ [][Next]_vars

\* The GameBoard module driven directly.
SetCell == \E i \in Indices, v \in Markers : GameBoard_setCell(i, v)
ResetBoard == GameBoard_resetBoard

NextBoard == SetCell \/ ResetBoard

SpecBoard == Init /\ [][NextBoard]_vars

\* A caller that keeps the array getBoard() returned and writes to it, next
\* to setCell and resetBoard; only cells 0..MaxAliasIndex are touched.
GetBoard == GameBoard_getBoard
WriteSnapshot == \E i \in AliasIndices, v \in Markers \cup {EMPTY} : writeThroughSnapshot(i, v)
SetCellAlias == \E i \in AliasIndices, v \in Markers : GameBoard_setCell(i, v)

NextAlias == GetBoard \/ WriteSnapshot \/ SetCellAlias \/ ResetBoard

SpecAlias == Init /\ [][NextAlias]_vars

\* checkWinner applied to every board of 9 cells over {EMPTY, X, O}; each of
\* them is a board direct setCell calls can build.
AllBoards == [1..BoardSize -> Markers \cup {EMPTY}]

InitOutcome ==
    /\ heap \in [{1} -> AllBoards]
    /\ board = 1
    /\ held = NoRef
    /\ players = <<>>
    /\ currentPlayerIndex = 0
    /\ isGameOver = FALSE
    /\ call = [op |-> "load", ret |-> RetVoid]

CheckWinner == GameController_checkWinner

NextOutcome == CheckWinner

SpecOutcome == InitOutcome /\ [][NextOutcome]_vars

\* The engine as the view drives it: checkWinner is called between the
\* other calls (renderBoard calls it after every one of them).
NextView == Next \/ CheckWinner

SpecView == Init /\ [][NextView]_vars

TypeOK ==
    /\ board \in Refs
    /\ currentPlayerIndex \in {0, 1}
    /\ isGameOver \in BOOLEAN

\* ---------------------------------------------------------------- claims
started == Len(players) = 2
Occupied(a) == {c \in DOMAIN a : a[c] # EMPTY}
isPlayRound(c) == c.op = "playRound"

\* C1 - terminal lock: from a state whose outcome is a win or a tie, every
\* playRound(i) returns false and leaves the board, the turn index and the
\* game-over flag as they were.
\* (Written as: a playRound step either is such a refusal or starts from a
\* state whose outcome is null.)
C1_TerminalLock ==
    [][isPlayRound(call')
       => \/ /\ call'.ret = RetFalse
             /\ cells' = cells
             /\ currentPlayerIndex' = currentPlayerIndex
             /\ isGameOver' = isGameOver
          \/ checkWinner(cells) = null]_vars

\* A finished game in which playRound on a free cell has just been refused.
C1_Witness ==
    /\ checkWinner(cells) \in Markers
    /\ isPlayRound(call)
    /\ call.ret = RetFalse
    /\ call.index \in 0..(BoardSize - 1)
    /\ cells[call.index + 1] = EMPTY

\* C2 - invalid move: in a started game that is not over, playRound(i) with i
\* outside 0..8 or on an occupied cell returns false and changes neither the
\* board, nor the turn index, nor the game-over flag.
C2_InvalidMove ==
    [][(/\ started
        /\ ~isGameOver
        /\ isPlayRound(call')
        /\ (call'.index \notin 0..(BoardSize - 1) \/ cells[call'.index + 1] # EMPTY))
       => /\ call'.ret = RetFalse
          /\ cells' = cells
          /\ currentPlayerIndex' = currentPlayerIndex
          /\ isGameOver' = isGameOver]_vars

\* A running game, some cells taken, where an out-of-range playRound was
\* refused.
C2_Witness ==
    /\ started
    /\ ~isGameOver
    /\ Occupied(cells) # {}
    /\ isPlayRound(call)
    /\ call.index \notin 0..(BoardSize - 1)
    /\ call.ret = RetFalse

\* C3 - turn alternation: the turn index is always 0 or 1; startGame and
\* resetGame set it to 0; a successful playRound that leaves the game in
\* progress flips it; an unsuccessful playRound leaves it unchanged.
C3_TurnAlternation ==
    /\ [](currentPlayerIndex \in {0, 1})
    /\ [][/\ call'.op \in {"startGame", "resetGame"} => currentPlayerIndex' = 0
          /\ (isPlayRound(call') /\ call'.ret = RetTrue /\ checkWinner(cells') = null)
             => /\ currentPlayerIndex' # currentPlayerIndex
                /\ currentPlayerIndex' + currentPlayerIndex = 1
          /\ (isPlayRound(call') /\ call'.ret # RetTrue)
             => currentPlayerIndex' = currentPlayerIndex]_vars

\* After the second successful move of a game the turn is back at player 0.
C3_Witness ==
    /\ isPlayRound(call)
    /\ call.ret = RetTrue
    /\ Cardinality(Occupied(cells)) = 2
    /\ ~isGameOver
    /\ currentPlayerIndex = 0

\* C4 - terminal move: playRound returns true exactly when it placed the
\* current player's marker on one cell; and when that placement makes the
\* outcome a win or a tie, the flag becomes true and the turn index stays
\* with the player who moved.
C4_TerminalMove ==
    [][isPlayRound(call')
       => /\ (call'.ret = RetTrue) <=> (cells' # cells)
          /\ call'.ret = RetTrue
             => /\ call'.index \in 0..(BoardSize - 1)
                /\ cells[call'.index + 1] = EMPTY
                /\ cells' = [cells EXCEPT ![call'.index + 1] =
                                players[currentPlayerIndex + 1].marker]
          /\ (call'.ret = RetTrue /\ checkWinner(cells') # null)
             => /\ isGameOver'
                /\ currentPlayerIndex' = currentPlayerIndex]_vars

\* The state right after player 1 (O) made the winning move.
C4_Witness ==
    /\ isPlayRound(call)
    /\ call.ret = RetTrue
    /\ isGameOver
    /\ checkWinner(cells) = MarkO
    /\ currentPlayerIndex = 1

\* The reference rule of C5: the eight lines in scan order.
RefLines ==
    << <<0, 1, 2>>, <<3, 4, 5>>, <<6, 7, 8>>,
       <<0, 3, 6>>, <<1, 4, 7>>, <<2, 5, 8>>,
       <<0, 4, 8>>, <<2, 4, 6>> >>
RefLineWins(a, l) ==
    /\ a[l[1] + 1] # EMPTY
    /\ a[l[1] + 1] = a[l[2] + 1]
    /\ a[l[1] + 1] = a[l[3] + 1]
RefWinning(a) == {n \in 1..8 : RefLineWins(a, RefLines[n])}
RefFirst(a) == CHOOSE n \in RefWinning(a) : \A m \in RefWinning(a) : n <= m
RefOutcome(a) ==
    IF RefWinning(a) # {} THEN a[RefLines[RefFirst(a)][1] + 1]
    ELSE IF \A c \in 1..BoardSize : a[c] # EMPTY THEN tie
    ELSE null

\* C5 - on every board of 9 cells over {EMPTY, X, O}, checkWinner returns the
\* marker of the first winning line in the order rows, columns, diagonals;
\* else tie when no cell is EMPTY; else null.
C5_CheckWinnerReference ==
    call.op = "checkWinner" => call.ret = RefOutcome(cells)

\* A board where both markers have a complete row and the scan order decides.
C5_Witness ==
    /\ call.op = "checkWinner"
    /\ Cardinality(RefWinning(cells)) = 2
    /\ \E n \in RefWinning(cells) : cells[RefLines[n][1] + 1] # call.ret

\* C6 - no overwrite: the board always has exactly 9 cells, and a step that
\* is not a reset (startGame, resetGame, resetBoard) changes a cell only from
\* EMPTY to a marker; an occupied cell keeps its value.
C6_NoOverwrite ==
    /\ [](DOMAIN cells = 1..BoardSize)
    /\ [][call'.op \in {"startGame", "resetGame", "resetBoard"}
          \/ \A c \in 1..BoardSize :
                \/ cells'[c] = cells[c]
                \/ cells[c] = EMPTY /\ cells'[c] \in Markers]_vars

\* Player O tried to take a cell that holds X; the cell still holds X.
C6_Witness ==
    /\ isPlayRound(call)
    /\ call.ret = RetFalse
    /\ ~isGameOver
    /\ started
    /\ call.index \in 0..(BoardSize - 1)
    /\ cells[call.index + 1] = MarkX
    /\ getCurrentPlayer.marker = MarkO

\* C7 - setCell(i, v) returns true exactly when 0 <= i < 9 and cell i is
\* EMPTY; it then writes v into cell i and leaves the other 8 cells as they
\* were; when it returns false no cell changes.
C7_SetCellFrame ==
    [][call'.op = "setCell"
       => /\ (call'.ret = RetTrue)
             <=> (call'.index \in 0..(BoardSize - 1) /\ cells[call'.index + 1] = EMPTY)
          /\ call'.ret = RetTrue
             => /\ cells'[call'.index + 1] = call'.value
                /\ \A c \in (1..BoardSize) \ {call'.index + 1} : cells'[c] = cells[c]
          /\ call'.ret # RetTrue => cells' = cells
          /\ DOMAIN cells' = 1..BoardSize]_vars

\* setCell has just written a marker next to cells that were already taken.
C7_Witness ==
    /\ call.op = "setCell"
    /\ call.ret = RetTrue
    /\ cells[call.index + 1] = call.value
    /\ Cardinality(Occupied(cells)) >= 3

\* C8 - resetGame yields 9 EMPTY cells, turn index 0 and game-over false, and
\* leaves the two players as startGame made them.
C8_ResetGame ==
    [][call'.op = "resetGame"
       => /\ cells' = EmptyArray
          /\ currentPlayerIndex' = 0
          /\ isGameOver' = FALSE
          /\ players' = players]_vars

\* resetGame has just run in a game started with two different names.
C8_Witness ==
    /\ call.op = "resetGame"
    /\ started
    /\ players[1].name # players[2].name
    /\ players[1].marker = MarkX
    /\ players[2].marker = MarkO

\* C9 - startGame(name1, name2) makes player 0 (name1, X) and player 1
\* (name2, O), sets the turn index to 0, clears the flag and empties the
\* board; the first placement of a game is player 0's marker.
C9_StartGame ==
    [][/\ call'.op = "startGame"
          => /\ players' = << [name |-> call'.player1Name, marker |-> MarkX],
                              [name |-> call'.player2Name, marker |-> MarkO] >>
             /\ currentPlayerIndex' = 0
             /\ isGameOver' = FALSE
             /\ cells' = EmptyArray
       /\ (isPlayRound(call') /\ call'.ret = RetTrue /\ cells = EmptyArray)
          => cells'[call'.index + 1] = players[1].marker]_vars

\* startGame has just run with two different names.
C9_Witness ==
    /\ call.op = "startGame"
    /\ call.player1Name # call.player2Name
    /\ players[1].name = call.player1Name
    /\ players[2].name = call.player2Name

\* C10 - the array getBoard returned is a read-only snapshot: a write to it
\* by its holder never changes the cells of the board.
C10_ReadOnlySnapshot ==
    [][call'.op = "write" => cells' = cells]_vars

\* C11 - before any startGame, playRound(i) returns false for every i, raises
\* no fault, and leaves the board, the turn index and the flag unchanged.
C11_NotStartedNoOp ==
    [][(~started /\ isPlayRound(call'))
       => /\ call'.ret = RetFalse
          /\ cells' = cells
          /\ currentPlayerIndex' = currentPlayerIndex
          /\ isGameOver' = isGameOver]_vars

\* C12 - the game-over flag is stable: while it is true every playRound
\* leaves it true and places nothing, and only resetGame or startGame takes
\* it back to false.
C12_FlagStable ==
    [][isGameOver
       => /\ isPlayRound(call') => (isGameOver' /\ cells' = cells /\ call'.ret = RetFalse)
          /\ ~isGameOver' => call'.op \in {"resetGame", "startGame"}]_vars

\* A tied game, flag set, in which a further playRound has been refused.
C12_Witness ==
    /\ isGameOver
    /\ checkWinner(cells) = tie
    /\ isPlayRound(call)
    /\ call.ret = RetFalse

\* The lines of RefLines that are complete on array a.
CompleteLines(a) == RefWinning(a)
LineMarker(a, n) == a[RefLines[n][1] + 1]
LineCells(n) == {RefLines[n][j] : j \in 1..3}

\* C13 as stated - in every board reachable by valid play at most one of the
\* 8 lines has three equal non-empty cells.
C13_AtMostOneLine == Cardinality(CompleteLines(cells)) <= 1

\* C13 as amended - at most two lines are complete at the same time, and two
\* complete lines hold the same marker and cross in one cell (the cell of the
\* last move).
C13_AtMostTwoCrossingLines ==
    /\ Cardinality(CompleteLines(cells)) <= 2
    /\ \A n, m \in CompleteLines(cells) :
          n # m => /\ LineMarker(cells, n) = LineMarker(cells, m)
                   /\ Cardinality(LineCells(n) \cap LineCells(m)) = 1

\* A finished game whose last move completed two lines at once.
C13_Witness ==
    /\ isGameOver
    /\ Cardinality(CompleteLines(cells)) = 2

\* C14 - whenever the outcome is a win by marker m in a started game, the
\* current player is the player whose marker is m.
C14_WinnerIsCurrentPlayer ==
    (started /\ checkWinner(cells) \in Markers)
       => /\ hasCurrentPlayer
          /\ getCurrentPlayer.marker = checkWinner(cells)

\* X has won and the current player is the first player, here named "Bo".
C14_Witness ==
    /\ started
    /\ checkWinner(cells) = MarkX
    /\ currentPlayerIndex = 0
    /\ getCurrentPlayer.name = "Bo"
    /\ getCurrentPlayer.marker = MarkX

\* C15 - the game-over flag is true exactly when checkWinner on the current
\* board is not null.
C15_FlagAgreesWithBoard ==
    isGameOver <=> (checkWinner(cells) # null)

\* The move that filled the board without a line has just set the flag.
C15_Witness ==
    /\ isGameOver
    /\ checkWinner(cells) = tie
    /\ isPlayRound(call)
    /\ call.ret = RetTrue

Count(a, marker) == Cardinality({c \in DOMAIN a : a[c] = marker})

\* C16 - mark balance: in a started game the number of X cells minus the
\* number of O cells is 0 or 1; while the game is not over the turn index is
\* 0 exactly when the counts are equal and 1 exactly when X has one more.
C16_MarkBalance ==
    started
       => /\ Count(cells, MarkX) - Count(cells, MarkO) \in {0, 1}
          /\ ~isGameOver
             => /\ currentPlayerIndex = 0 <=> Count(cells, MarkX) = Count(cells, MarkO)
                /\ currentPlayerIndex = 1 <=> Count(cells, MarkX) = Count(cells, MarkO) + 1

\* Mid-game, after X's third move: O is to play.
C16_Witness ==
    /\ started
    /\ ~isGameOver
    /\ Count(cells, MarkX) = 3
    /\ Count(cells, MarkO) = 2
    /\ currentPlayerIndex = 1

\* C17 - unique winner: never do both markers have a complete line, so every
\* complete line holds the marker checkWinner returns, whatever the order in
\* which the lines are scanned.
C17_UniqueWinner ==
    /\ ~(\E n, m \in CompleteLines(cells) : LineMarker(cells, n) # LineMarker(cells, m))
    /\ \A n \in CompleteLines(cells) : LineMarker(cells, n) = checkWinner(cells)

\* O has won on the last line of the scan order, the diagonal 2-4-6.
C17_Witness ==
    /\ CompleteLines(cells) = {8}
    /\ LineMarker(cells, 8) = MarkO
    /\ isGameOver

\* A playRound call that places a marker.
Placement ==
    \E i \in 0..(BoardSize - 1) :
        /\ playRoundBranch(isGameOver, hasCurrentPlayer) = "place"
        /\ setCell(cells, i, getCurrentPlayer.marker).ret
        /\ playRound(i)

\* The engine with the fairness C18 assumes: a successful playRound occurs
\* whenever one stays possible. One pair of names and the indices 0..8 (a
\* refused playRound is then one on an occupied cell or after the end).
StartGameFair == startGame("Ann", "Bo")
PlayRoundFair == \E i \in 0..(BoardSize - 1) : playRound(i)

NextFair == StartGameFair \/ PlayRoundFair \/ ResetGame

SpecFair == Init /\ [][NextFair]_vars /\ WF_vars(Placement)

ResetStep == call'.op \in {"startGame", "resetGame"}

\* C18 - every game ends. The successful playRound calls since the last
\* startGame/resetGame are counted by the occupied cells; the flag is true
\* only with 5 to 9 of them and always with 9; and, successful playRound
\* calls being fair, either resets keep occurring or the game reaches
\* game-over and stays there.
C18_EveryGameEnds ==
    /\ [][/\ ResetStep => Cardinality(Occupied(cells')) = 0
          /\ (isPlayRound(call') /\ call'.ret = RetTrue)
             => Cardinality(Occupied(cells')) = Cardinality(Occupied(cells)) + 1
          /\ (isPlayRound(call') /\ call'.ret # RetTrue) => cells' = cells]_vars
    /\ [](isGameOver => Cardinality(Occupied(cells)) \in 5..9)
    /\ []((started /\ Cardinality(Occupied(cells)) = 9) => isGameOver)
    /\ ([]<><<ResetStep>>_vars \/ <>[](isGameOver \/ ~started))

\* A game that ended with the fifth placement, the earliest possible.
C18_Witness ==
    /\ isGameOver
    /\ Cardinality(Occupied(cells)) = 5
    /\ isPlayRound(call)
    /\ call.ret = RetTrue

\* C19 - checkWinner has no side effects: a call leaves the board, the
\* players, the turn index and the flag unchanged, its result is the outcome
\* of the board as it stands, and a call right after another returns the same
\* result.
C19_CheckWinnerPure ==
    [][call'.op = "checkWinner"
       => /\ heap' = heap
          /\ board' = board
          /\ players' = players
          /\ currentPlayerIndex' = currentPlayerIndex
          /\ isGameOver' = isGameOver
          /\ call'.ret = RefOutcome(cells)
          /\ call.op = "checkWinner" => call'.ret = call.ret]_vars

\* checkWinner has just been called on a game X won, flag set, X current.
C19_Witness ==
    /\ call.op = "checkWinner"
    /\ call.ret = MarkX
    /\ started
    /\ isGameOver
    /\ getCurrentPlayer.marker = MarkX
====
